---- MODULE Spec2Model ----
(***************************************************************************)
(* Model of libc/src/__support/CPP/bit.h: the bit-manipulation primitives  *)
(* on unsigned fixed-width integers (countr_zero, countl_zero, countl_one, *)
(* bit_width, bit_floor, bit_ceil, rotl, rotr, first_leading_zero,         *)
(* first_leading_one).                                                     *)
(*                                                                         *)
(* A value of an unsigned type T with numeric_limits<T>::digits = N is a   *)
(* natural number in 0 .. 2^N - 1.  The widths modelled are those of       *)
(* unsigned char (8) and unsigned short (16); both are promoted to int by  *)
(* the C++ integral promotions before any arithmetic, and converted back   *)
(* to T (reduction modulo 2^N) on assignment, argument passing and return. *)
(* The rotation amount is a 32-bit int.                                    *)
(***************************************************************************)
EXTENDS Integers, Sequences, FiniteSets, TLC

VARIABLES digits,      \* numeric_limits<T>::digits of the type T of the call
          value,       \* the argument `value`
          rotate,      \* the argument `rotate` of rotl / rotr (0 otherwise)
          op,          \* the function that was called ("none" before a call)
          result,      \* the value the call returned
          specialized, \* TRUE iff the call ran an ADD_SPECIALIZATION body
          builtin_arg, \* argument handed to the compiler builtin, NoCall if none
          reduced,     \* the reduced amounts, one per rotl/rotr frame entered
          hops,        \* number of delegations rotl -> rotr / rotr -> rotl
          shl,         \* amount of the left shift executed, NoShift if none
          shr,         \* amount of the right shift executed, NoShift if none
          negovf       \* TRUE iff a negation `-rotate` overflowed int

vars == <<digits, value, rotate, op, result, specialized, builtin_arg,
          reduced, hops, shl, shr, negovf>>

-----------------------------------------------------------------------------
(* Types and bounds *)

\* numeric_limits<unsigned char>::digits
CharDigits == 8

\* numeric_limits<unsigned short>::digits
ShortDigits == 16

\* Width of int, the type of `rotate` and the target of integral promotion.
IntBits == 32

\* The unsigned types T modelled, by their digits.
Digits == {CharDigits, ShortDigits}

\* The types for which ADD_SPECIALIZATION defines a builtin-backed
\* countr_zero / countl_zero (unsigned short, via __builtin_ctzs/__builtin_clzs).
SpecializedDigits == {ShortDigits}

INT_MAX == 2147483647
INT_MIN == -INT_MAX - 1

\* Rotation amounts -RotMax .. RotMax are enumerated, plus the extremes of int.
RotMax == 17

\* The unsigned short values used for rotations are the multiples of
\* RotStride below 2^16, together with the boundary patterns.
RotStride == 23

NoCall == -1
NoShift == -1

\* numeric_limits<T>::max()
Max(N) == 2^N - 1

Values(N) == 0 .. Max(N)

-----------------------------------------------------------------------------
(* Integer operators of C++ on the promoted operands *)

\* Conversion of an int to the unsigned type T of N digits (value mod 2^N).
ToT(x, N) == x % (2^N)

\* x >> s on a non-negative operand
ShiftRight(x, s) == x \div (2^s)

\* x << s on a non-negative promoted operand (no reduction: the product
\* stays below 2^31 for every operand of at most 16 bits and s <= 15).
ShiftLeft(x, s) == x * (2^s)

Bit(x, i) == (x \div (2^i)) % 2

RECURSIVE BitAnd(_, _)
BitAnd(x, y) ==
  IF x = 0 \/ y = 0 THEN 0
  ELSE (x % 2) * (y % 2) + 2 * BitAnd(x \div 2, y \div 2)

RECURSIVE BitOr(_, _)
BitOr(x, y) ==
  IF x = 0 THEN y
  ELSE IF y = 0 THEN x
  ELSE (IF x % 2 = 1 \/ y % 2 = 1 THEN 1 ELSE 0) + 2 * BitOr(x \div 2, y \div 2)

\* ~value on the promoted (int) operand, converted back to T.
BitNot(x, N) == ToT(-x - 1, N)

-----------------------------------------------------------------------------
(* countr_zero / countl_zero: the generic bisection templates *)

\* The while loop of countr_zero: the state of one iteration is
\* (value, zero_bits, shift, mask); assignments to `value` and `mask`
\* convert to T.
RECURSIVE countr_zero_loop(_, _, _, _, _)
countr_zero_loop(v, zero_bits, shift, mask, N) ==
  IF shift = 0 THEN zero_bits
  ELSE LET hit == BitAnd(v, mask) = 0
           v2 == IF hit THEN ToT(ShiftRight(v, shift), N) ELSE v
           z2 == IF hit THEN BitOr(zero_bits, shift) ELSE zero_bits
           s2 == ShiftRight(shift, 1)
           m2 == ToT(ShiftRight(mask, s2), N)
       IN countr_zero_loop(v2, z2, s2, m2, N)

\* Mutant: the generic countr_zero without its `if (!value)` early return.
countr_zero_no_zero_check(v, N) ==
  IF BitAnd(v, 1) # 0 THEN 0
  ELSE countr_zero_loop(v, 0, ShiftRight(N, 1),
                        ToT(ShiftRight(Max(N), ShiftRight(N, 1)), N), N)

countr_zero(v, N) ==
  IF v = 0 THEN N
  ELSE IF BitAnd(v, 1) # 0 THEN 0
  ELSE countr_zero_loop(v, 0, ShiftRight(N, 1),
                        ToT(ShiftRight(Max(N), ShiftRight(N, 1)), N), N)

\* The for loop of countl_zero.
RECURSIVE countl_zero_loop(_, _, _, _)
countl_zero_loop(v, zero_bits, shift, N) ==
  IF shift = 0 THEN zero_bits
  ELSE LET tmp == ToT(ShiftRight(v, shift), N)
       IN IF tmp # 0
          THEN countl_zero_loop(tmp, zero_bits, ShiftRight(shift, 1), N)
          ELSE countl_zero_loop(v, BitOr(zero_bits, shift), ShiftRight(shift, 1), N)

\* Mutant: the generic countl_zero without its `if (!value)` early return.
countl_zero_no_zero_check(v, N) ==
  countl_zero_loop(v, 0, ShiftRight(N, 1), N)

countl_zero(v, N) ==
  IF v = 0 THEN N
  ELSE countl_zero_loop(v, 0, ShiftRight(N, 1), N)

-----------------------------------------------------------------------------
(* The builtin-backed specializations *)

\* The results a build can produce for the builtin at 0, where it is
\* undefined: any int (the instruction's leftover register, N, the width of
\* the promoted operand, a value folded by the optimizer).
Undefined == INT_MIN .. INT_MAX

\* The undefined results drawn: the extremes of int, negative counts, the
\* counts in range, N and the counts beyond it.
UndefinedDrawn(N) ==
  {u \in {INT_MIN, -N, -1, 0, 1, N - 1, N, N + 1, IntBits - 1, IntBits,
          604241335, INT_MAX} : u \in Undefined}

\* __builtin_ctzs / __builtin_clzs on an N-bit operand: the number of
\* trailing / leading 0-bits of x; undefined (ub) when x = 0.
Builtin(NAME, x, N, ub) ==
  IF x = 0 THEN ub
  ELSE IF NAME = "countr_zero"
       THEN CHOOSE c \in 0 .. N - 1 : x % (2^(c + 1)) = 2^c
       ELSE CHOOSE c \in 0 .. N - 1 : 2^(N - 1 - c) <= x /\ x < 2^(N - c)

\* Mutant: a specialization that hands every value to the builtin.
ADD_SPECIALIZATION_no_zero_check(NAME, v, N, ub) ==
  [ret |-> Builtin(NAME, v, N, ub), arg |-> v, spec |-> TRUE]

\* The body ADD_SPECIALIZATION(NAME, TYPE, BUILTIN) defines:
\*   value == 0 ? digits : BUILTIN(value)
\* `arg` records the operand the builtin was invoked on (NoCall when it was
\* not invoked), `spec` that a specialization body ran.
ADD_SPECIALIZATION(NAME, v, N, ub) ==
  IF v = 0 THEN [ret |-> N, arg |-> NoCall, spec |-> TRUE]
  ELSE [ret |-> Builtin(NAME, v, N, ub), arg |-> v, spec |-> TRUE]

\* The outcome of a function that returns ret without reaching countl_zero,
\* or reaches the generic template.
Plain(ret) == [ret |-> ret, arg |-> NoCall, spec |-> FALSE]

\* Overload resolution of cpp::countl_zero<T>: the explicit specialization
\* when T has one and the build has the builtin, the generic template
\* otherwise.
UsesSpecialization(N, has_builtin) == N \in SpecializedDigits /\ has_builtin

countl_zero_T(v, N, has_builtin, ub) ==
  IF UsesSpecialization(N, has_builtin)
  THEN ADD_SPECIALIZATION("countl_zero", v, N, ub)
  ELSE Plain(countl_zero(v, N))

-----------------------------------------------------------------------------
(* Functions derived from countl_zero.  Each returns the record of its     *)
(* countl_zero call with `ret` replaced by its own return value.           *)

countl_one(v, N, has_builtin, ub) ==
  countl_zero_T(BitNot(v, N), N, has_builtin, ub)

bit_width(v, N, has_builtin, ub) ==
  LET c == countl_zero_T(v, N, has_builtin, ub)
  IN [c EXCEPT !.ret = N - c.ret]

\* Mutant: bit_floor shifting by bit_width instead of bit_width - 1.
bit_floor_off_by_one(v, N, has_builtin, ub) ==
  IF v = 0 THEN Plain(0)
  ELSE LET w == bit_width(v, N, has_builtin, ub)
       IN [w EXCEPT !.ret = ToT(ShiftLeft(1, w.ret), N)]

\* T(1) is promoted to int, shifted, and the int converted to T on return.
bit_floor(v, N, has_builtin, ub) ==
  IF v = 0 THEN Plain(0)
  ELSE LET w == bit_width(v, N, has_builtin, ub)
       IN [w EXCEPT !.ret = ToT(ShiftLeft(1, w.ret - 1), N)]

\* Mutant: bit_ceil taking the width of value instead of value - 1.
bit_ceil_of_value(v, N, has_builtin, ub) ==
  IF v < 2 THEN Plain(1)
  ELSE LET w == bit_width(v, N, has_builtin, ub)
       IN [w EXCEPT !.ret = ToT(ShiftLeft(1, w.ret), N)]

\* value - 1u is computed in unsigned int and converted to T at the call.
bit_ceil(v, N, has_builtin, ub) ==
  IF v < 2 THEN Plain(1)
  ELSE LET w == bit_width(ToT(v - 1, N), N, has_builtin, ub)
       IN [w EXCEPT !.ret = ToT(ShiftLeft(1, w.ret), N)]

\* Mutant: first_leading_zero without the all-ones special case.
first_leading_zero_no_max_check(v, N, has_builtin, ub) ==
  LET c == countl_one(v, N, has_builtin, ub)
  IN [c EXCEPT !.ret = c.ret + 1]

first_leading_zero(v, N, has_builtin, ub) ==
  IF v = Max(N) THEN Plain(0)
  ELSE LET c == countl_one(v, N, has_builtin, ub)
       IN [c EXCEPT !.ret = c.ret + 1]

first_leading_one(v, N, has_builtin, ub) ==
  first_leading_zero(BitNot(v, N), N, has_builtin, ub)

-----------------------------------------------------------------------------
(* rotl / rotr *)

\* The two 16-bit halves of the unsigned int an int converts to
\* (the conversion adds 2^32 to a negative value).
UnsignedHi(x) == (x \div 65536) % 65536
UnsignedLo(x) == x % 65536

\* (hi * 2^16 + lo) % N, on unsigned operands
UnsignedRem(hi, lo, N) == ((hi % N) * (65536 % N) + (lo % N)) % N

\* rotate = rotate % N, with `constexpr unsigned N`: the usual arithmetic
\* conversions turn the int `rotate` into unsigned int, the remainder is
\* unsigned, and its value (below N) converts back to int unchanged.
ReduceRotate(r, N) == UnsignedRem(UnsignedHi(r), UnsignedLo(r), N)

\* Mutant: no short-circuit for a zero net rotation.
RotateIsZero_never(r) == FALSE

\* if (!rotate) return value;
RotateIsZero(r) == r = 0

\* Mutant: both shifts of rotl by the same amount.
rotl_shift_same_amount(v, r, N) ==
  ToT(BitOr(ShiftLeft(v, r), ShiftRight(v, r)), N)

\* (value << rotate) | (value >> (N - rotate)) on the promoted value,
\* converted to T on return.
rotl_shift(v, r, N) ==
  ToT(BitOr(ShiftLeft(v, r), ShiftRight(v, N - r)), N)

\* Mutant: rotr computed with the expression of rotl.
rotr_shift_as_rotl(v, r, N) ==
  ToT(BitOr(ShiftLeft(v, r), ShiftRight(v, N - r)), N)

\* (value >> rotate) | (value << (N - rotate))
rotr_shift(v, r, N) ==
  ToT(BitOr(ShiftRight(v, r), ShiftLeft(v, N - r)), N)

\* The outcome of a frame that returns without calling the other function.
RotReturn(ret, r, depth, l, rr) ==
  [ret |-> ret, reduced |-> <<r>>, hops |-> depth, shl |-> l, shr |-> rr,
   negovf |-> FALSE]

\* The outcome of a frame whose `-rotate` overflows int: undefined.
RotOverflow(v, r, depth) ==
  [ret |-> v, reduced |-> <<r>>, hops |-> depth, shl |-> NoShift,
   shr |-> NoShift, negovf |-> TRUE]

RECURSIVE rotl(_, _, _, _), rotr(_, _, _, _)

\* rotl(value, rotate) entered with `depth` delegations already made.
rotl(v, rot, N, depth) ==
  LET r == ReduceRotate(rot, N) IN
  IF RotateIsZero(r) THEN RotReturn(v, r, depth, NoShift, NoShift)
  ELSE IF r < 0
       THEN IF r = INT_MIN THEN RotOverflow(v, r, depth)
            ELSE LET d == rotr(v, -r, N, depth + 1)
                 IN [d EXCEPT !.reduced = <<r>> \o d.reduced]
       ELSE RotReturn(rotl_shift(v, r, N), r, depth, r, N - r)

\* rotr(value, rotate) entered with `depth` delegations already made.
rotr(v, rot, N, depth) ==
  LET r == ReduceRotate(rot, N) IN
  IF RotateIsZero(r) THEN RotReturn(v, r, depth, NoShift, NoShift)
  ELSE IF r < 0
       THEN IF r = INT_MIN THEN RotOverflow(v, r, depth)
            ELSE LET d == rotl(v, -r, N, depth + 1)
                 IN [d EXCEPT !.reduced = <<r>> \o d.reduced]
       ELSE RotReturn(rotr_shift(v, r, N), r, depth, N - r, r)

-----------------------------------------------------------------------------
(* The state machine: inputs are drawn, then one function is called *)

Idle(N, v) ==
  /\ digits = N
  /\ value = v
  /\ rotate = 0
  /\ op = "none"
  /\ result = 0
  /\ specialized = FALSE
  /\ builtin_arg = NoCall
  /\ reduced = <<>>
  /\ hops = 0
  /\ shl = NoShift
  /\ shr = NoShift
  /\ negovf = FALSE

\* Every value of every modelled type.
Init == \E N \in Digits : \E v \in Values(N) : Idle(N, v)

NoRotation == UNCHANGED <<rotate, reduced, hops, shl, shr, negovf>>

\* A call that ended with outcome o: its return value, whether a
\* specialization body ran and the operand its builtin received.
Return(name, o) ==
  /\ op' = name
  /\ result' = o.ret
  /\ specialized' = o.spec
  /\ builtin_arg' = o.arg
  /\ UNCHANGED <<digits, value>>
  /\ NoRotation

\* countr_zero<T>(value), generic template
CountrZero ==
  /\ op = "none"
  /\ Return("countr_zero", Plain(countr_zero(value, digits)))

\* countl_zero<T>(value), generic template
CountlZero ==
  /\ op = "none"
  /\ Return("countl_zero", Plain(countl_zero(value, digits)))

\* countr_zero<T>(value), ADD_SPECIALIZATION body
CountrZeroSpecialized ==
  /\ op = "none"
  /\ digits \in SpecializedDigits
  /\ \E ub \in UndefinedDrawn(digits) :
       Return("countr_zero_specialized",
              ADD_SPECIALIZATION("countr_zero", value, digits, ub))

\* countl_zero<T>(value), ADD_SPECIALIZATION body
CountlZeroSpecialized ==
  /\ op = "none"
  /\ digits \in SpecializedDigits
  /\ \E ub \in UndefinedDrawn(digits) :
       Return("countl_zero_specialized",
              ADD_SPECIALIZATION("countl_zero", value, digits, ub))

CountlOne ==
  /\ op = "none"
  /\ \E b \in BOOLEAN, ub \in UndefinedDrawn(digits) :
       Return("countl_one", countl_one(value, digits, b, ub))

BitWidth ==
  /\ op = "none"
  /\ \E b \in BOOLEAN, ub \in UndefinedDrawn(digits) :
       Return("bit_width", bit_width(value, digits, b, ub))

BitFloor ==
  /\ op = "none"
  /\ \E b \in BOOLEAN, ub \in UndefinedDrawn(digits) :
       Return("bit_floor", bit_floor(value, digits, b, ub))

BitCeil ==
  /\ op = "none"
  /\ \E b \in BOOLEAN, ub \in UndefinedDrawn(digits) :
       Return("bit_ceil", bit_ceil(value, digits, b, ub))

FirstLeadingZero ==
  /\ op = "none"
  /\ \E b \in BOOLEAN, ub \in UndefinedDrawn(digits) :
       Return("first_leading_zero", first_leading_zero(value, digits, b, ub))

FirstLeadingOne ==
  /\ op = "none"
  /\ \E b \in BOOLEAN, ub \in UndefinedDrawn(digits) :
       Return("first_leading_one", first_leading_one(value, digits, b, ub))

Next ==
  \/ CountrZero
  \/ CountlZero
  \/ CountrZeroSpecialized
  \/ CountlZeroSpecialized
  \/ CountlOne
  \/ BitWidth
  \/ BitFloor
  \/ BitCeil
  \/ FirstLeadingZero
  \/ FirstLeadingOne

Spec == Init /\ [][Next]_vars

-----------------------------------------------------------------------------
(* The state machine of the rotations *)

\* The amounts drawn for `rotate`: every int of small magnitude (negative,
\* zero, the multiples of 8 and 16, amounts beyond the width), larger
\* multiples of the widths and the extremes of int.
RotAmounts ==
  (-RotMax .. RotMax)
    \cup {-64, -33, -32, 32, 33, 64}
    \cup {INT_MIN, INT_MIN + 1, INT_MAX - 1, INT_MAX}

\* The values drawn for rotations: every unsigned char, and for unsigned
\* short the multiples of RotStride and the boundary patterns.
RotValues(N) ==
  IF N = CharDigits THEN Values(N)
  ELSE {v \in Values(N) : v % RotStride = 0}
         \cup {1, 2, 2^(N - 1), 2^(N - 1) + 1, Max(N) - 1, Max(N)}

InitRot == \E N \in Digits : \E v \in RotValues(N) : Idle(N, v)

\* A rotation call that ended with outcome o: the value returned is o.ret,
\* or any value of T when the call executed an overflowing negation.
RotReturns(name, r, o) ==
  /\ op' = name
  /\ rotate' = r
  /\ result' \in (IF o.negovf THEN Values(digits) ELSE {o.ret})
  /\ reduced' = o.reduced
  /\ hops' = o.hops
  /\ shl' = o.shl
  /\ shr' = o.shr
  /\ negovf' = o.negovf
  /\ UNCHANGED <<digits, value, specialized, builtin_arg>>

\* rotl<T>(value, rotate)
Rotl ==
  /\ op = "none"
  /\ \E r \in RotAmounts : RotReturns("rotl", r, rotl(value, r, digits, 0))

\* rotr<T>(value, rotate)
Rotr ==
  /\ op = "none"
  /\ \E r \in RotAmounts : RotReturns("rotr", r, rotr(value, r, digits, 0))

\* rotr(rotl(value, rotate), rotate): the outcome is that of the outer call,
\* with the frames, delegations and overflows of both calls.
RotlThenRotr ==
  /\ op = "none"
  /\ \E r \in RotAmounts :
       LET a == rotl(value, r, digits, 0)
           b == rotr(a.ret, r, digits, 0)
       IN RotReturns("rotl_rotr", r,
                     [b EXCEPT !.reduced = a.reduced \o b.reduced,
                               !.hops = a.hops + b.hops,
                               !.negovf = a.negovf \/ b.negovf])

NextRot ==
  \/ Rotl
  \/ Rotr
  \/ RotlThenRotr

SpecRot == InitRot /\ [][NextRot]_vars

-----------------------------------------------------------------------------
(* Reference definitions the properties are stated with *)

\* Naive scan from the least significant bit: the index of the first set
\* bit at or above i, N when there is none.
RECURSIVE LinearScanUp(_, _, _)
LinearScanUp(v, N, i) ==
  IF i = N THEN N
  ELSE IF Bit(v, i) = 1 THEN i
  ELSE LinearScanUp(v, N, i + 1)

\* Naive scan from the most significant bit: the number of bits equal to
\* `skip` met before the first other bit, counting from c.
RECURSIVE LinearScanDown(_, _, _, _)
LinearScanDown(v, N, skip, c) ==
  IF c = N THEN N
  ELSE IF Bit(v, N - 1 - c) # skip THEN c
  ELSE LinearScanDown(v, N, skip, c + 1)

IsPowerOfTwo(x) == \E k \in 0 .. IntBits - 2 : x = 2^k

\* The value whose bit i is b[i], for i in 0 .. N-1.
RECURSIVE FromBits(_, _)
FromBits(b, n) == IF n = 0 THEN 0 ELSE b[n - 1] * 2^(n - 1) + FromBits(b, n - 1)

\* Circular left rotation by k in 0 .. N-1: bit i comes from bit i - k.
RefRotl(v, k, N) == FromBits([i \in 0 .. N - 1 |-> Bit(v, (i - k) % N)], N)

\* Circular right rotation by k in 0 .. N-1: bit i comes from bit i + k.
RefRotr(v, k, N) == FromBits([i \in 0 .. N - 1 |-> Bit(v, (i + k) % N)], N)

-----------------------------------------------------------------------------
(* Properties *)

\* C1: on every value of a type with a builtin-backed specialization, the
\* specialized countr_zero and countl_zero return what the generic bisection
\* returns, and the builtin is never invoked on 0, in a direct call or in a
\* call made by a derived function.
C1_SpecializedAgreesWithGeneric ==
  /\ op = "countr_zero_specialized" =>
       /\ result = countr_zero(value, digits)
       /\ builtin_arg = (IF value = 0 THEN NoCall ELSE value)
  /\ op = "countl_zero_specialized" =>
       /\ result = countl_zero(value, digits)
       /\ builtin_arg = (IF value = 0 THEN NoCall ELSE value)
  /\ builtin_arg # 0
  /\ builtin_arg # NoCall => specialized

\* The specialization was called on 0 and answered without the builtin.
C1_Witness ==
  /\ op = "countr_zero_specialized"
  /\ digits = ShortDigits
  /\ value = 0
  /\ result = ShortDigits
  /\ builtin_arg = NoCall

\* C2: the generic countr_zero equals the naive scan from the least
\* significant bit: N iff value = 0, otherwise a count c in 0 .. N-1 with
\* bits 0 .. c-1 zero and bit c set (value >> c is odd).
C2_CountrZeroIsLinearScan ==
  op = "countr_zero" =>
    /\ result = LinearScanUp(value, digits, 0)
    /\ (result = digits) <=> (value = 0)
    /\ value # 0 =>
         /\ result \in 0 .. digits - 1
         /\ ShiftRight(value, result) % 2 = 1
         /\ \A i \in 0 .. result - 1 : Bit(value, i) = 0

\* countr_zero(0xA000) = 13 on unsigned short: the bisection took three of
\* its four halvings.
C2_Witness ==
  /\ op = "countr_zero"
  /\ digits = ShortDigits
  /\ value = 40960
  /\ result = 13

\* C3: the generic countl_zero returns N iff value = 0, otherwise a count c
\* in 0 .. N-1 with bit N-1-c set and every higher bit zero.
C3_CountlZeroIsLeadingCount ==
  op = "countl_zero" =>
    /\ (result = digits) <=> (value = 0)
    /\ value # 0 =>
         /\ result \in 0 .. digits - 1
         /\ Bit(value, digits - 1 - result) = 1
         /\ \A i \in digits - result .. digits - 1 : Bit(value, i) = 0

\* countl_zero(5) = 13 on unsigned short.
C3_Witness ==
  /\ op = "countl_zero"
  /\ digits = ShortDigits
  /\ value = 5
  /\ result = 13

\* C4: rotl and rotr equal the reference circular rotation by rotate mod N
\* (non-negative modulus) for every int amount; a negative amount rotates
\* the other way, and rotl by 0 or by N returns the value.
C4_RotationIsCircular ==
  /\ op = "rotl" =>
       /\ result = RefRotl(value, rotate % digits, digits)
       /\ (rotate < 0 /\ rotate # INT_MIN) =>
            result = rotr(value, -rotate, digits, 0).ret
       /\ rotate \in {0, digits} => result = value
  /\ op = "rotr" =>
       /\ result = RefRotr(value, rotate % digits, digits)
       /\ (rotate < 0 /\ rotate # INT_MIN) =>
            result = rotl(value, -rotate, digits, 0).ret

\* rotl(0x01, -3) on unsigned char is 0x20, the right rotation by 3.
C4_Witness ==
  /\ op = "rotl"
  /\ digits = CharDigits
  /\ value = 1
  /\ rotate = -3
  /\ result = 32

\* C5: rotr(rotl(value, r), r) = value for every value and every int r.
C5_RotationRoundTrip ==
  op = "rotl_rotr" => result = value

\* The round trip was made with a negative, out-of-range amount that is
\* not a multiple of the width.
C5_Witness ==
  /\ op = "rotl_rotr"
  /\ digits = CharDigits
  /\ value = 129
  /\ rotate = INT_MIN + 1
  /\ reduced = <<1, 1>>
  /\ result = 129

\* C6 (as claimed): bit_ceil(0) = 1, bit_ceil(1) = 1, and for every value > 1
\* bit_ceil(value) is a power of two with bit_ceil/2 < value <= bit_ceil.
C6_BitCeilEveryValue ==
  op = "bit_ceil" =>
    /\ value < 2 => result = 1
    /\ value > 1 =>
         /\ IsPowerOfTwo(result)
         /\ result \div 2 < value
         /\ value <= result

\* C6 (amended): bit_ceil(0) = 1, bit_ceil(1) = 1, and for every value with
\* 1 < value <= 2^(N-1), the largest power of two representable in T,
\* bit_ceil(value) is a power of two with bit_ceil/2 < value <= bit_ceil.
C6_BitCeilRepresentable ==
  op = "bit_ceil" =>
    /\ value < 2 => result = 1
    /\ (value > 1 /\ value <= 2^(digits - 1)) =>
         /\ IsPowerOfTwo(result)
         /\ result \div 2 < value
         /\ value <= result

\* bit_ceil(16385) = 32768 on unsigned short, the largest representable
\* power of two.
C6_Witness ==
  /\ op = "bit_ceil"
  /\ digits = ShortDigits
  /\ value = 16385
  /\ result = 32768

\* C7: bit_floor(0) = 0 and for value > 0 bit_floor(value) is a power of two
\* with bit_floor <= value < 2 * bit_floor; bit_width(value) is
\* N - countl_zero(value), the position of the highest set bit plus one, and
\* 0 for value = 0.
C7_BitFloorAndWidth ==
  /\ op = "bit_floor" =>
       /\ value = 0 => result = 0
       /\ value > 0 =>
            /\ IsPowerOfTwo(result)
            /\ result <= value
            /\ value < 2 * result
            /\ result = 2^(digits - 1 - LinearScanDown(value, digits, 0, 0))
  /\ op = "bit_width" =>
       /\ result = digits - countl_zero(value, digits)
       /\ result = digits - LinearScanDown(value, digits, 0, 0)
       /\ value = 0 => result = 0
       /\ value # 0 => Bit(value, result - 1) = 1 /\ value < 2^result

\* bit_floor(0xFFFF) = 0x8000 on unsigned short.
C7_Witness ==
  /\ op = "bit_floor"
  /\ digits = ShortDigits
  /\ value = Max(ShortDigits)
  /\ result = 32768

\* C8: first_leading_zero(value) is 0 for the all-ones value and otherwise
\* the 1-based position from the most significant bit of the first zero bit,
\* countl_one(value) + 1 with countl_one(value) = countl_zero(~value);
\* first_leading_one(value) = first_leading_zero(~value) is 0 for value = 0
\* and otherwise the 1-based position of the first one bit.
C8_FirstLeadingPositions ==
  /\ op = "first_leading_zero" =>
       /\ value = Max(digits) => result = 0
       /\ value # Max(digits) =>
            /\ result = LinearScanDown(value, digits, 1, 0) + 1
            /\ result = countl_zero(BitNot(value, digits), digits) + 1
            /\ result \in 1 .. digits
            /\ Bit(value, digits - result) = 0
       /\ value = 0 => result = 1
  /\ op = "countl_one" =>
       /\ result = countl_zero(BitNot(value, digits), digits)
       /\ result = LinearScanDown(value, digits, 1, 0)
  /\ op = "first_leading_one" =>
       /\ value = 0 => result = 0
       /\ value # 0 =>
            /\ result = LinearScanDown(value, digits, 0, 0) + 1
            /\ Bit(value, digits - result) = 1

\* first_leading_zero of the all-ones unsigned short returned the sentinel.
C8_Witness ==
  /\ op = "first_leading_zero"
  /\ digits = ShortDigits
  /\ value = Max(ShortDigits)
  /\ result = 0

\* C9 (as claimed): a negative rotate that is not a multiple of N leaves a
\* negative reduced amount, and the call is serviced by exactly one
\* delegation to the opposite function with the negated, non-negative amount.
C9_NegativeAmountDelegates ==
  (op \in {"rotl", "rotr"} /\ rotate < 0 /\ rotate % digits # 0) =>
    /\ Len(reduced) = 2
    /\ reduced[1] < 0
    /\ reduced[2] = -reduced[1]
    /\ hops = 1

\* C10: whenever rotl or rotr executes its double shift, both shift amounts
\* lie in 1 .. N-1 and add up to N, and no negation of an amount overflows.
C10_ShiftAmountsInRange ==
  op \in {"rotl", "rotr", "rotl_rotr"} =>
    /\ ~negovf
    /\ (shl = NoShift) <=> (shr = NoShift)
    /\ shl # NoShift =>
         /\ shl \in 1 .. digits - 1
         /\ shr \in 1 .. digits - 1
         /\ shl + shr = digits

\* rotr of an unsigned short by -17 shifted right by 15 and left by 1.
C10_Witness ==
  /\ op = "rotr"
  /\ digits = ShortDigits
  /\ rotate = -17
  /\ shr = 15
  /\ shl = 1
  /\ ~negovf

====
